---- MODULE Spec2Model ----
(***************************************************************************)
(* State database (eth-types/src/state_db.rs) and the step error           *)
(* classification of the circuit input builder, as exercised by            *)
(* bus-mapping/src/circuit_input_builder/tracer_tests.rs.                  *)
(*                                                                         *)
(* A builder is created for one trace step (CircuitInputBuilderTx::new),   *)
(* its state database and call stack are set up (set_account, push_call,   *)
(* call_ctx_mut().memory = ...), and get_step_err classifies the step.     *)
(***************************************************************************)
EXTENDS Integers, Sequences, FiniteSets, TLC

VARIABLES
    state,      \* StateDB.state: address -> Account (a HashMap: partial)
    access_list_account,          \* StateDB.access_list_account
    access_list_account_storage,  \* StateDB.access_list_account_storage
    dirty_storage,                \* StateDB.dirty_storage: (address, key) -> word
    transient_storage,            \* StateDB.transient_storage: (address, key) -> word
    destructed_account,           \* StateDB.destructed_account
    touched_account,              \* StateDB.touched_account
    refund,                       \* StateDB.refund
    alt,        \* BlockData.sdb: the StateDB the builder's copy was cloned from
    last_op,    \* the last StateDB operation, its arguments and what it returned
    ops,        \* number of StateDB operations so far
    calls,      \* TransactionContext call stack, the current call last
    memory,     \* memory of the current call context (bytes)
    step,       \* the GethExecStep handed to get_step_err, or NoStep
    next_step,  \* the following GethExecStep, or NoStep (Option::None)
    err,        \* what get_step_err returned, Pending before the call
    index       \* position in the struct logs of the traced push program

sdb_vars ==
    <<state, access_list_account, access_list_account_storage, dirty_storage,
      transient_storage, destructed_account, touched_account, refund>>
tx_vars ==
    <<access_list_account, access_list_account_storage, dirty_storage,
      transient_storage, destructed_account, touched_account, refund>>
hist_vars == <<alt, last_op, ops>>
tracer_vars == <<calls, memory, step, next_step, err, index>>
vars ==
    <<state, access_list_account, access_list_account_storage, dirty_storage,
      transient_storage, destructed_account, touched_account, refund,
      alt, last_op, ops, calls, memory, step, next_step, err, index>>

(***************************************************************************)
(* Bounds of the model.                                                    *)
(***************************************************************************)
\* balances and transferred values range over 0..MaxBalance (+1 for values)
MaxBalance == 1

(***************************************************************************)
(* Program constants.                                                      *)
(***************************************************************************)
ADDR_A == 0
ADDR_B == 291
\* a depth limit that is off by one
CALL_DEPTH_LIMIT_alt == 1025 + 1
\* step.depth == 1025: a call at this depth cannot be entered
CALL_DEPTH_LIMIT == 1025
\* a code size limit that is off by one
MAX_CODE_SIZE_alt == 24576 + 1
\* 0x6000, the largest code a creation may deploy
MAX_CODE_SIZE == 24576
\* a deposit cost of half the price
CODE_STORE_GAS_PER_BYTE_alt == 200 \div 2
\* gas paid per byte of deployed code
CODE_STORE_GAS_PER_BYTE == 200
\* a stack limit that is off by one
STACK_LIMIT_alt == 1023 + 1
\* the limit geth reports for a push onto a full stack: 1024 + pops - pushes
STACK_LIMIT == 1023
\* for i in 0u64..1025: the pushes of the stack overflow program
PUSHES == 1025
\* another reserved byte, 0xfe
INVALID_CODE_PREFIX_alt == 239 + 15
\* 0xef, the first byte no deployed code may have
INVALID_CODE_PREFIX == 239


(***************************************************************************)
(* eth-types/src/state_db.rs                                               *)
(***************************************************************************)
EMPTY_CODE_HASH == "EMPTY_CODE_HASH"
KECCAK_CODE_HASH_EMPTY == "KECCAK_CODE_HASH_EMPTY"

\* Account::zero()
AccountZero ==
    [nonce |-> 0, balance |-> 0, storage |-> <<>>,
     code_hash |-> EMPTY_CODE_HASH,
     keccak_code_hash |-> KECCAK_CODE_HASH_EMPTY,
     code_size |-> 0]

\* StateDB::set_account: self.state.insert(*addr, acc)
set_account(sdb, addr, acc) ==
    [a \in (DOMAIN sdb) \cup {addr} |-> IF a = addr THEN acc ELSE sdb[a]]

\* a get_account that does not find an account that is empty
get_account_nonempty(sdb, addr) ==
    IF addr \in DOMAIN sdb /\ (sdb[addr].nonce # 0 \/ sdb[addr].code_size # 0)
    THEN <<TRUE, sdb[addr]>>
    ELSE <<FALSE, AccountZero>>

\* a get_account that reports the shared zero account as found
get_account_found(sdb, addr) ==
    IF addr \in DOMAIN sdb THEN <<TRUE, sdb[addr]>> ELSE <<TRUE, AccountZero>>

\* StateDB::get_account: (found, account), the shared zero account when absent
get_account(sdb, addr) ==
    IF addr \in DOMAIN sdb THEN <<TRUE, sdb[addr]>> ELSE <<FALSE, AccountZero>>

\* a get_balance that reads the wrong field of the account
get_balance_nonce(sdb, addr) == get_account(sdb, addr)[2].nonce

\* a get_nonce that reads the wrong field of the account
get_nonce_balance(sdb, addr) == get_account(sdb, addr)[2].balance

\* StateDB::get_balance
get_balance(sdb, addr) == get_account(sdb, addr)[2].balance

\* StateDB::get_nonce
get_nonce(sdb, addr) == get_account(sdb, addr)[2].nonce

(***************************************************************************)
(* Trace steps (GethExecStep) and their operands.                          *)
(***************************************************************************)
NoStep == [op |-> "NoStep"]
NoError == "None"

CallOps == {"CALL", "CALLCODE", "DELEGATECALL", "STATICCALL"}
CreateOps == {"CREATE", "CREATE2"}
JumpOps == {"JUMP", "JUMPI"}
OtherOps == {"REVERT", "RETURNDATACOPY", "RETURN", "STOP", "SSTORE",
             "SELFDESTRUCT", "LOG0", "PUSH2", "MSTORE", "SWAP5"}
Opcodes == CallOps \cup CreateOps \cup JumpOps \cup OtherOps

\* GethExecError tags a step can carry
RawErrors == {"StackOverflow", "StackUnderflow", "InvalidOpcode", "GasUintOverflow"}

\* Stack::last and Stack::nth_last: the top of the stack is the last element
last(stack) == stack[Len(stack)]
nth_last(stack, n) == stack[Len(stack) - n]

\* a result() that reads the bottom of the stack instead of its top
result_first(next) ==
    IF next = NoStep THEN 0
    ELSE IF Len(next.stack) = 0 THEN 0 ELSE next.stack[1]

\* tracer_tests.rs result(): the word on top of the next step's stack, zero
\* when there is no next step or its stack is empty
result(next) ==
    IF next = NoStep THEN 0
    ELSE IF Len(next.stack) = 0 THEN 0 ELSE last(next.stack)

\* a next_depth() that takes the end of the trace for depth 1
next_depth_one(next) == IF next = NoStep THEN 1 ELSE next.depth

\* next_step.map(|s| s.depth).unwrap_or(0)
next_depth(next) == IF next = NoStep THEN 0 ELSE next.depth

\* value operand: CALL/CALLCODE third from the top, CREATE/CREATE2 on top
step_value(s) ==
    IF s.op \in {"CALL", "CALLCODE"} THEN nth_last(s.stack, 2)
    ELSE IF s.op \in CreateOps THEN last(s.stack)
    ELSE 0

(***************************************************************************)
(* Call frames.                                                            *)
(***************************************************************************)
is_create(call) == call.kind \in {"Create", "Create2"}

\* the root call of the transaction: tx.to = ADDR_A, depth 1
root_call ==
    [kind |-> "Call", is_static |-> FALSE, is_root |-> TRUE,
     is_persistent |-> TRUE, is_success |-> TRUE,
     caller_address |-> ADDR_B, address |-> ADDR_A, depth |-> 1, value |-> 0]

\* tracer_tests.rs mock_internal_create()
mock_internal_create ==
    [kind |-> "Create", is_static |-> FALSE, is_root |-> FALSE,
     is_persistent |-> FALSE, is_success |-> FALSE,
     caller_address |-> ADDR_A, address |-> ADDR_B, depth |-> 2, value |-> 0]

\* tracer_tests.rs mock_root_create()
mock_root_create ==
    [kind |-> "Create", is_static |-> FALSE, is_root |-> TRUE,
     is_persistent |-> FALSE, is_success |-> FALSE,
     caller_address |-> ADDR_A, address |-> ADDR_B, depth |-> 1, value |-> 0]

\* the static call pushed by tracer_err_write_protection
mock_static_call ==
    [kind |-> "StaticCall", is_static |-> TRUE, is_root |-> FALSE,
     is_persistent |-> FALSE, is_success |-> FALSE,
     caller_address |-> ADDR_A, address |-> ADDR_B, depth |-> 2, value |-> 0]

MockCalls == {mock_internal_create, mock_root_create, mock_static_call}

\* CircuitInputStateRef::call(): the current call is the last one pushed
current_call(cs) == cs[Len(cs)]

(***************************************************************************)
(* Address derivation.  The hash is modelled as an injective encoding, so  *)
(* that two derivations agree exactly when their inputs agree.             *)
(***************************************************************************)
\* Memory read: bytes beyond the end of the memory read as zero
mem_byte(mem, i) == IF i < Len(mem) THEN mem[i + 1] ELSE 0
mem_read(mem, offset, length) == [i \in 1..length |-> mem_byte(mem, offset + i - 1)]

RECURSIVE keccak(_)
keccak(bytes) ==
    IF Len(bytes) = 0 THEN 0 ELSE 1 + bytes[1] + 257 * keccak(Tail(bytes))

\* address of a plain creation: hash of (creator, creator's nonce)
create_address(call, sdb) ==
    1000000 + call.address * 10 + get_nonce(sdb, call.address)

\* address of a salted creation: hash of (0xff, creator, salt, hash of the
\* initialization code read from the creator's memory)
create2_address(s, call, mem) ==
    LET salt == nth_last(s.stack, 3)
        length == nth_last(s.stack, 2)
        offset == nth_last(s.stack, 1)
    IN  1000000000 + (call.address * 10 + salt) * 100000
            + keccak(mem_read(mem, offset, length))

(***************************************************************************)
(* Error classification.                                                   *)
(***************************************************************************)
Success == <<"None">>

\* a mapping that keeps the gas overflow as it was reported
get_step_reported_error_raw(error) ==
    CASE error = "StackOverflow" -> <<"StackOverflow">>
      [] error = "StackUnderflow" -> <<"StackUnderflow">>
      [] error = "InvalidOpcode" -> <<"InvalidOpcode">>
      [] error = "GasUintOverflow" -> <<"GasUintOverflow">>

\* errors reported by the trace itself
get_step_reported_error(error) ==
    CASE error = "StackOverflow" -> <<"StackOverflow">>
      [] error = "StackUnderflow" -> <<"StackUnderflow">>
      [] error = "InvalidOpcode" -> <<"InvalidOpcode">>
      [] error = "GasUintOverflow" -> <<"OutOfGas", "StaticMemoryExpansion">>

\* the sub-kind of a depth, balance or collision error
call_kind_of(op) ==
    IF op = "CREATE" THEN "Create" ELSE IF op = "CREATE2" THEN "Create2" ELSE "Call"

\* opcodes that change state, forbidden in a static frame
is_state_mutating(s) ==
    \/ s.op \in {"SSTORE", "SELFDESTRUCT", "LOG0", "CREATE", "CREATE2"}
    \/ s.op = "CALL" /\ step_value(s) # 0

\* RETURN in a creation frame that stores the code: the deployed code is
\* memory[offset .. offset + length).  The code size is checked first
\* (tracer_err_max_code_size_exceeded: 0x6001 bytes with gas below 200 * 0x6001
\* is MaxCodeSizeExceeded); the tests do not fix the order of the deposit-gas
\* and the invalid-prefix checks, so a step that fails both may get either.
return_from_create(s, mem) ==
    LET offset == last(s.stack)
        length == nth_last(s.stack, 1)
        oog == CODE_STORE_GAS_PER_BYTE * length > s.gas
        invalid == /\ length > 0
                   /\ Len(mem) # 0
                   /\ offset < Len(mem)
                   /\ mem[offset + 1] = INVALID_CODE_PREFIX
    IN  IF length > MAX_CODE_SIZE THEN {<<"MaxCodeSizeExceeded">>}
        ELSE IF oog /\ invalid
             THEN {<<"CodeStoreOutOfGas">>, <<"InvalidCreationCode">>}
        ELSE IF oog THEN {<<"CodeStoreOutOfGas">>}
        ELSE IF invalid THEN {<<"InvalidCreationCode">>}
        ELSE {Success}

\* a call or creation that was not entered: the next step is in the same frame
\* and the pushed result is zero
call_not_executed(s, call, mem, sdb) ==
    IF s.depth = CALL_DEPTH_LIMIT
    THEN <<"Depth", call_kind_of(s.op)>>
    ELSE IF get_balance(sdb, call.address) < step_value(s)
    THEN <<"InsufficientBalance", call_kind_of(s.op)>>
    ELSE IF s.op \in CreateOps
            /\ get_account(sdb, IF s.op = "CREATE" THEN create_address(call, sdb)
                                ELSE create2_address(s, call, mem))[1]
    THEN <<"ContractAddressCollision", call_kind_of(s.op)>>
    ELSE Success

\* a classification of unwound frames that takes every step it has no rule
\* for as a failure
call_failure_strict(s, call, mem) ==
    IF s.op \in JumpOps THEN {<<"InvalidJump">>}
    ELSE IF s.op = "RETURNDATACOPY" THEN {<<"ReturnDataOutOfBounds">>}
    ELSE IF s.op = "REVERT" THEN {Success}
    ELSE IF s.op = "RETURN" /\ is_create(call) THEN return_from_create(s, mem)
    ELSE IF call.is_static /\ is_state_mutating(s) THEN {<<"WriteProtection">>}
    ELSE {<<"UnexpectedExecStepError">>}

\* a frame that unwound with a failure: the next step is at another depth (or
\* the trace ended) and the result is zero
call_failure(s, call, mem) ==
    IF s.op \in JumpOps THEN {<<"InvalidJump">>}
    ELSE IF s.op = "RETURNDATACOPY" THEN {<<"ReturnDataOutOfBounds">>}
    ELSE IF s.op = "REVERT" THEN {Success}
    ELSE IF s.op = "RETURN" /\ is_create(call) THEN return_from_create(s, mem)
    ELSE IF call.is_static /\ is_state_mutating(s) THEN {<<"WriteProtection">>}
    ELSE {Success}

\* a classification in which a REVERT that unwinds its frame is an error
get_step_err_revert_fails(s, next, call, mem, sdb) ==
    IF s.error # NoError THEN {get_step_reported_error(s.error)}
    ELSE IF s.depth # next_depth(next) /\ result(next) = 0
    THEN (IF s.op = "REVERT" THEN {<<"ExecutionReverted">>}
          ELSE call_failure(s, call, mem))
    ELSE IF s.op \in CallOps \cup CreateOps
            /\ s.depth = next_depth(next) /\ result(next) = 0
    THEN {call_not_executed(s, call, mem, sdb)}
    ELSE {Success}

\* CircuitInputStateRef::get_step_err: the outcomes the classification of step
\* s may have, given the following step
get_step_err(s, next, call, mem, sdb) ==
    IF s.error # NoError THEN {get_step_reported_error(s.error)}
    ELSE IF s.depth # next_depth(next) /\ result(next) = 0
    THEN call_failure(s, call, mem)
    ELSE IF s.op \in CallOps \cup CreateOps
            /\ s.depth = next_depth(next) /\ result(next) = 0
    THEN {call_not_executed(s, call, mem, sdb)}
    ELSE {Success}

(***************************************************************************)
(* The trace source.  A step is recorded before its instruction runs; the  *)
(* following step shows what the instruction did: it continues in the same *)
(* frame, enters a callee (one frame deeper, empty stack), or the frame    *)
(* has ended (one frame shallower with the result pushed, or no step at    *)
(* all when the root frame ended).                                         *)
(***************************************************************************)
Depths == {1, 2, 1024, 1025}
Values == 0..(MaxBalance + 1)
Lengths == {0, 1, 24576, 24577}
Gases == {199, 200, 200 * 24576, 200 * 24577}
Memories == {<<>>, <<239>>, <<0, 239>>}

StepStacks(op) ==
    CASE op \in {"CALL", "CALLCODE"} ->
            {<<0, 0, 0, 0, v, ADDR_B, 65536>> : v \in Values}
      [] op \in {"DELEGATECALL", "STATICCALL"} -> {<<0, 0, 0, 0, ADDR_B, 65536>>}
      [] op = "CREATE" -> {<<l, 0, v>> : l \in {0, 1}, v \in Values}
      [] op = "CREATE2" -> {<<1, l, 0, v>> : l \in {0, 1}, v \in Values}
      [] op = "RETURN" -> {<<l, o>> : l \in Lengths, o \in {0, 1}}
      [] op = "REVERT" -> {<<0, 0>>}
      [] op = "JUMP" -> {<<16>>}
      [] op = "JUMPI" -> {<<1, 16>>}
      [] op = "RETURNDATACOPY" -> {<<2, 0, 0>>}
      [] op = "SSTORE" -> {<<1, 2>>}
      [] op = "SELFDESTRUCT" -> {<<ADDR_A>>}
      [] op = "LOG0" -> {<<0, 0>>}
      [] op = "MSTORE" -> {<<66, 0>>}
      [] op = "SWAP5" -> {<<1, 2, 3, 4, 5, 6>>}
      [] OTHER -> {<<>>}

\* steps without a reported error
PlainSteps ==
    UNION {{[op |-> o, depth |-> d, gas |-> g, error |-> NoError, stack |-> st] :
                d \in Depths,
                g \in (IF o = "RETURN" THEN Gases ELSE {65536}),
                st \in StepStacks(o)} : o \in Opcodes}

\* steps on which the tracer reported an error
ErrorSteps ==
    {[op |-> o, depth |-> d, gas |-> 0, error |-> e, stack |-> <<>>] :
        o \in Opcodes, d \in {1, 2}, e \in RawErrors}

NextStep(d, st) == [op |-> "PUSH2", depth |-> d, stack |-> st]

\* the frame of step s ended with a failure
Aborted(s) ==
    IF s.depth > 1
    THEN {NextStep(s.depth - 1, <<0>>), NextStep(s.depth - 1, <<1, 0>>)}
    ELSE {NoStep}

\* the frame of step s ended with success
Returned(s) ==
    IF s.depth > 1 THEN {NextStep(s.depth - 1, <<1>>)} ELSE {NoStep}

\* the frame goes on after step s
Continued(s) == {NextStep(s.depth, <<0>>), NextStep(s.depth, <<1>>)}

\* the reference machine refuses to store the code returned by a creation
CodeRejected(s, mem) ==
    LET offset == last(s.stack)
        length == nth_last(s.stack, 1)
    IN  \/ length > 24576
        \/ length > 0 /\ mem_byte(mem, offset) = 239
        \/ s.gas < 200 * length

\* the reference machine enters the callee of a call or creation
CanEnter(s, call, mem, sdb) ==
    /\ s.depth < 1025
    /\ get_account(sdb, call.address)[2].balance >= step_value(s)
    /\ s.op = "CREATE" => ~get_account(sdb, create_address(call, sdb))[1]
    /\ s.op = "CREATE2" => ~get_account(sdb, create2_address(s, call, mem))[1]

\* the steps that may follow step s in a trace
GethNext(s, call, mem, sdb) ==
    IF s.error # NoError THEN Aborted(s)
    ELSE IF s.op \in CallOps \cup CreateOps
    THEN IF call.is_static /\ is_state_mutating(s)
         THEN (IF s.depth > 1 THEN Aborted(s) ELSE {})
         ELSE {NextStep(s.depth, <<0>>), NextStep(s.depth, <<1, 0>>)}
              \cup (IF CanEnter(s, call, mem, sdb)
                    THEN {NextStep(s.depth, <<1>>), NextStep(s.depth + 1, <<>>)}
                    ELSE {})
    ELSE IF s.op \in JumpOps \cup {"RETURNDATACOPY"}
    THEN Continued(s) \cup Aborted(s)
    ELSE IF s.op = "REVERT" THEN Aborted(s)
    ELSE IF s.op = "STOP" THEN Returned(s)
    ELSE IF s.op = "RETURN"
    THEN (IF is_create(call) /\ CodeRejected(s, mem) THEN Aborted(s) ELSE Returned(s))
    ELSE IF s.op = "SELFDESTRUCT"
    THEN (IF call.is_static THEN Aborted(s) ELSE Returned(s))
    ELSE IF s.op \in {"SSTORE", "LOG0"}
    THEN (IF call.is_static THEN Aborted(s) ELSE Continued(s))
    ELSE Continued(s)

(***************************************************************************)
(* The builder.                                                            *)
(***************************************************************************)
Pending == <<"Pending">>

\* BlockData::new_from_geth_data: every account of the block is in the
\* state database before the first step
InitState == [a \in {ADDR_A, ADDR_B} |-> AccountZero]

\* the accounts the set-up writes, among them the targets of the creations of
\* mock_internal_create with nonce 0 and with salt 1 and empty code
SetAddrs ==
    {ADDR_A, ADDR_B,
     create_address(mock_internal_create, InitState),
     create2_address([stack |-> <<1, 0, 0, 0>>], mock_internal_create, <<>>)}

Accounts ==
    {[AccountZero EXCEPT !.balance = b, !.nonce = n] : b \in 0..MaxBalance, n \in {0, 1}}

\* StateDB::new() with the accounts st: every transaction-scoped field empty
NewStateDB(st) ==
    [state |-> st,
     access_list_account |-> {},
     access_list_account_storage |-> {},
     dirty_storage |-> <<>>,
     transient_storage |-> <<>>,
     destructed_account |-> {},
     touched_account |-> {},
     refund |-> 0]

\* no StateDB operation yet
NoOp == [op |-> "new", args |-> <<>>, ret |-> <<>>, failed |-> FALSE]

\* new_circuit_input_builder: the builder works on self.sdb.clone()
InitBuilderSdb(st) ==
    /\ state = st
    /\ access_list_account = {}
    /\ access_list_account_storage = {}
    /\ dirty_storage = <<>>
    /\ transient_storage = <<>>
    /\ destructed_account = {}
    /\ touched_account = {}
    /\ refund = 0
    /\ alt = NewStateDB(st)
    /\ last_op = NoOp
    /\ ops = 0

Init ==
    /\ InitBuilderSdb(InitState)
    /\ calls = <<root_call>>
    /\ memory = <<>>
    /\ step = NoStep
    /\ next_step = NoStep
    /\ err = Pending
    /\ index = 0

\* builder.builder.sdb.set_account(addr, acc)
SetAccount ==
    /\ err = Pending
    /\ \E addr \in SetAddrs, acc \in Accounts :
          /\ addr \notin {ADDR_A, ADDR_B} => acc.balance = 0
          /\ addr = create_address(mock_internal_create, InitState) => acc = AccountZero
          /\ state' = set_account(state, addr, acc)
    /\ UNCHANGED <<tracer_vars, tx_vars, hist_vars>>

\* builder.state_ref().push_call(call)
PushCall ==
    /\ err = Pending
    /\ Len(calls) = 1
    /\ \E call \in MockCalls : calls' = Append(calls, call)
    /\ UNCHANGED <<state, memory, step, next_step, err, index, tx_vars, hist_vars>>

\* builder.state_ref().call_ctx_mut().memory = memory
SetMemory ==
    /\ err = Pending
    /\ \E m \in Memories : memory' = m
    /\ UNCHANGED <<state, calls, step, next_step, err, index, tx_vars, hist_vars>>

\* builder.state_ref().get_step_err(step, next_step)
GetStepErr ==
    /\ err = Pending
    /\ \E s \in PlainSteps \cup ErrorSteps :
          \E n \in GethNext(s, current_call(calls), memory, state) :
             \E e \in get_step_err(s, n, current_call(calls), memory, state) :
                /\ step' = s
                /\ next_step' = n
                /\ err' = e
    /\ UNCHANGED <<state, calls, memory, index, tx_vars, hist_vars>>

\* CircuitInputBuilderTx::new: a fresh builder for the next test
NewBuilder ==
    /\ err # Pending
    /\ state' = InitState
    /\ calls' = <<root_call>>
    /\ memory' = <<>>
    /\ step' = NoStep
    /\ next_step' = NoStep
    /\ err' = Pending
    /\ index' = 0
    /\ UNCHANGED <<tx_vars, hist_vars>>

\* struct_logs[i] of the program that pushes PUSHES words: the stack holds the
\* words 0 .. i-1, and geth reports the overflow on the push that finds more
\* than STACK_LIMIT words
PushProgramStep(i) ==
    LET st == [k \in 1..i |-> k - 1]
    IN  IF i > STACK_LIMIT
        THEN [op |-> "PUSH2", depth |-> 1, gas |-> 65536, error |-> "StackOverflow",
              stack |-> st, stack_len |-> i, limit |-> STACK_LIMIT]
        ELSE [op |-> "PUSH2", depth |-> 1, gas |-> 65536, error |-> NoError,
              stack |-> st]

\* struct_logs.get(i): the trace ends with the step that reports an error
PushProgramLog(i) ==
    IF i < PUSHES /\ (i = 0 \/ PushProgramStep(i - 1).error = NoError)
    THEN [op |-> "PUSH2", depth |-> 1, stack |-> [k \in 1..i |-> k - 1]]
    ELSE NoStep

\* tracer_err_stack_overflow: a builder made for the step at struct_logs[index]
\* classifies it, step by step through the push program
TracePush ==
    /\ index < PUSHES
    /\ IF index = 0
       THEN err = Pending /\ state = InitState /\ calls = <<root_call>> /\ memory = <<>>
       ELSE step.error = NoError
    /\ LET s == PushProgramStep(index)
           n == PushProgramLog(index + 1)
       IN  /\ step' = s
           /\ next_step' = n
           /\ \E e \in get_step_err(s, n, root_call, <<>>, InitState) : err' = e
    /\ index' = index + 1
    /\ UNCHANGED <<state, calls, memory, tx_vars, hist_vars>>

Next == SetAccount \/ PushCall \/ SetMemory \/ GetStepErr \/ NewBuilder \/ TracePush

Spec == Init /\ [][Next]_vars

(***************************************************************************)
(* The state database on its own: the operations of StateDB, applied to    *)
(* the builder's copy, over a few addresses, keys and words.               *)
(***************************************************************************)
\* StateDB operations per behaviour
MaxOps == 3

\* precompiled contracts live at the addresses 1 .. 9
is_precompiled(addr) == addr \in 1..9

SdbAddrs == {ADDR_A, ADDR_B}
\* the addresses read: one of them precompiled
ReadAddrs == SdbAddrs \cup {1}
Keys == {2, 3}
Words == {0, 7}
StoragePairs == {<<ADDR_A, 2>>, <<ADDR_A, 3>>, <<ADDR_B, 2>>}
ReadPairs == ReadAddrs \X Keys

\* HashMap::insert
map_insert(m, k, v) == [x \in (DOMAIN m) \cup {k} |-> IF x = k THEN v ELSE m[x]]
\* the map without the key k
map_remove(m, k) == [x \in (DOMAIN m) \ {k} |-> m[x]]

\* the StateDB of the builder as one value
DB ==
    [state |-> state,
     access_list_account |-> access_list_account,
     access_list_account_storage |-> access_list_account_storage,
     dirty_storage |-> dirty_storage,
     transient_storage |-> transient_storage,
     destructed_account |-> destructed_account,
     touched_account |-> touched_account,
     refund |-> refund]

\* StateDB::is_touched
is_touched(db, addr) == addr \in db.touched_account

\* a get_account_mut that reports the account it has just inserted as found
get_account_mut_found(st, addr) ==
    IF addr \in DOMAIN st THEN <<TRUE, st>>
    ELSE <<TRUE, map_insert(st, addr, AccountZero)>>

\* StateDB::get_account_mut: (found, accounts after the call); a zero account
\* is inserted when none is found
get_account_mut(st, addr) ==
    IF addr \in DOMAIN st THEN <<TRUE, st>>
    ELSE <<FALSE, map_insert(st, addr, AccountZero)>>

\* StateDB::get_committed_storage: (found, value), from the account's storage
get_committed_storage(db, addr, key) ==
    LET acc == get_account(db.state, addr)[2]
    IN  IF key \in DOMAIN acc.storage THEN <<TRUE, acc.storage[key]>>
        ELSE <<FALSE, 0>>

\* a get_storage that prefers the committed value to the dirty one
get_storage_committed_first(db, addr, key) ==
    IF get_committed_storage(db, addr, key)[1]
    THEN get_committed_storage(db, addr, key)
    ELSE IF <<addr, key>> \in DOMAIN db.dirty_storage
    THEN <<TRUE, db.dirty_storage[<<addr, key>>]>>
    ELSE <<FALSE, 0>>

\* StateDB::get_storage: the dirty value, else the committed one
get_storage(db, addr, key) ==
    IF <<addr, key>> \in DOMAIN db.dirty_storage
    THEN <<TRUE, db.dirty_storage[<<addr, key>>]>>
    ELSE get_committed_storage(db, addr, key)

\* StateDB::get_transient_storage
get_transient_storage(db, addr, key) ==
    IF <<addr, key>> \in DOMAIN db.transient_storage
    THEN <<TRUE, db.transient_storage[<<addr, key>>]>>
    ELSE <<FALSE, 0>>

\* a get_storage_mut that reports the word it has just inserted as found
get_storage_mut_found(st, addr, key) ==
    LET st1 == get_account_mut(st, addr)[2]
    IN  <<TRUE,
          IF key \in DOMAIN st1[addr].storage THEN st1
          ELSE [st1 EXCEPT ![addr].storage = map_insert(@, key, 0)]>>

\* StateDB::get_storage_mut: (found, accounts after the call); the account and
\* a zero word at key are inserted when missing
get_storage_mut(st, addr, key) ==
    LET st1 == get_account_mut(st, addr)[2]
        found == key \in DOMAIN st1[addr].storage
    IN  <<found,
          IF found THEN st1
          ELSE [st1 EXCEPT ![addr].storage = map_insert(@, key, 0)]>>

\* *ptr = value, through the reference get_storage_mut returned
write_storage(st, addr, key, value) ==
    [st EXCEPT ![addr].storage = map_insert(@, key, value)]

\* a check_account_in_access_list that looks at the list only
check_account_listed(db, addr) == addr \in db.access_list_account

\* StateDB::check_account_in_access_list
check_account_in_access_list(db, addr) ==
    is_precompiled(addr) \/ addr \in db.access_list_account

\* StateDB::check_account_storage_in_access_list
check_account_storage_in_access_list(db, pair) ==
    pair \in db.access_list_account_storage

\* a set_storage that writes into the account's storage at once
set_storage_committed(db, addr, key, value) ==
    [db EXCEPT !.state = write_storage(get_storage_mut(@, addr, key)[2], addr, key, value)]

\* StateDB::set_storage: the write goes to the dirty set
set_storage(db, addr, key, value) ==
    [db EXCEPT !.dirty_storage = map_insert(@, <<addr, key>>, value)]

\* StateDB::set_transient_storage
set_transient_storage(db, addr, key, value) ==
    [db EXCEPT !.transient_storage = map_insert(@, <<addr, key>>, value)]

\* StateDB::increase_nonce: the account is inserted when missing
increase_nonce(db, addr) ==
    LET st1 == get_account_mut(db.state, addr)[2]
    IN  [db EXCEPT !.state = [st1 EXCEPT ![addr].nonce = @ + 1]]

\* a destruct_account that only marks the account and leaves it to commit_tx
destruct_account_marked_only(db, addr) ==
    [db EXCEPT !.destructed_account = @ \cup {addr}]

\* StateDB::destruct_account
destruct_account(db, addr) ==
    [db EXCEPT !.state = map_insert(@, addr, AccountZero),
               !.destructed_account = @ \cup {addr}]

\* a first loop that drops the dirty writes
commit_dirty_dropped(st, ds) == st

\* commit_tx, first loop: every dirty write goes through get_storage_mut into
\* the storage of its account
RECURSIVE commit_dirty(_, _)
commit_dirty(st, ds) ==
    IF DOMAIN ds = {} THEN st
    ELSE LET p == CHOOSE q \in DOMAIN ds : TRUE
             st1 == get_storage_mut(st, p[1], p[2])[2]
         IN  commit_dirty(write_storage(st1, p[1], p[2], ds[p]), map_remove(ds, p))

\* a second loop that increases the nonce of the destructed accounts
commit_destructed_counted(st, da) ==
    [a \in (DOMAIN st) \cup da |->
        IF a \in da THEN [get_account(st, a)[2] EXCEPT !.nonce = @ + 1] ELSE st[a]]

\* a second loop that leaves the destructed accounts as they are
commit_destructed_skipped(st, da) == st

\* commit_tx, second loop: *account = ACCOUNT_ZERO.clone() for every
\* destructed address
RECURSIVE commit_destructed(_, _)
commit_destructed(st, da) ==
    IF da = {} THEN st
    ELSE LET a == CHOOSE x \in da : TRUE
             st1 == get_account_mut(st, a)[2]
         IN  commit_destructed([st1 EXCEPT ![a] = AccountZero], da \ {a})

\* a commit_tx that zeroes the destructed accounts before it folds the dirty
\* writes
commit_tx_zeroes_first(db) ==
    [db EXCEPT
        !.access_list_account = {},
        !.access_list_account_storage = {},
        !.state = commit_dirty(commit_destructed(db.state, db.destructed_account),
                               db.dirty_storage),
        !.dirty_storage = <<>>,
        !.touched_account = {},
        !.refund = 0]

\* a commit_tx that keeps the refund counter
commit_tx_keeps_refund(db) ==
    [db EXCEPT
        !.access_list_account = {},
        !.access_list_account_storage = {},
        !.state = commit_destructed(commit_dirty(db.state, db.dirty_storage),
                                    db.destructed_account),
        !.dirty_storage = <<>>,
        !.touched_account = {}]

\* StateDB::commit_tx
commit_tx(db) ==
    [db EXCEPT
        !.access_list_account = {},
        !.access_list_account_storage = {},
        !.state = commit_destructed(commit_dirty(db.state, db.dirty_storage),
                                    db.destructed_account),
        !.dirty_storage = <<>>,
        !.touched_account = {},
        !.refund = 0]

\* a clear_transient_storage that clears nothing
clear_transient_storage_noop(db) == db

\* StateDB::clear_transient_storage
clear_transient_storage(db) == [db EXCEPT !.transient_storage = <<>>]

\* the builds of the crate: debug assertions compiled in, or compiled out
DebugAssertions == BOOLEAN

\* a removal that panics whatever the list holds
removal_fails_whatever(list, entry) == \E debug \in DebugAssertions : debug

\* let exist = list.remove(entry); debug_assert!(exist): the panic, which needs
\* the entry to be absent and the debug assertions to be compiled in
removal_fails(list, entry) ==
    \E debug \in DebugAssertions : debug /\ entry \notin list

\* the removal returns: the entry was present, or the debug assertions are
\* compiled out
removal_succeeds(list, entry) ==
    \E debug \in DebugAssertions : entry \in list \/ ~debug

\* the builder's StateDB becomes db, after the operation op
Apply(db, op, args, ret) ==
    /\ ops < MaxOps
    /\ ~last_op.failed
    /\ state' = db.state
    /\ access_list_account' = db.access_list_account
    /\ access_list_account_storage' = db.access_list_account_storage
    /\ dirty_storage' = db.dirty_storage
    /\ transient_storage' = db.transient_storage
    /\ destructed_account' = db.destructed_account
    /\ touched_account' = db.touched_account
    /\ refund' = db.refund
    /\ last_op' = [op |-> op, args |-> args, ret |-> ret, failed |-> FALSE]
    /\ ops' = ops + 1
    /\ UNCHANGED <<alt, tracer_vars>>

\* debug_assert!(exist) fails: the operation panics with the StateDB as the
\* failed removal left it, and the StateDB is used no more
AssertionFailure(op, args) ==
    /\ ops < MaxOps
    /\ ~last_op.failed
    /\ last_op' = [op |-> op, args |-> args, ret |-> <<>>, failed |-> TRUE]
    /\ ops' = ops + 1
    /\ UNCHANGED <<sdb_vars, alt, tracer_vars>>

\* the accounts a block brings: untouched, or with a nonce, a balance and a
\* storage slot
BlockAccount ==
    [AccountZero EXCEPT !.nonce = 1, !.balance = 1, !.storage = map_insert(<<>>, 2, 7)]

\* BlockData::new_from_geth_data: the accounts of the block
BlockStates ==
    {<<>>,
     map_insert(<<>>, ADDR_A, BlockAccount),
     map_insert(map_insert(<<>>, ADDR_A, BlockAccount), ADDR_B, AccountZero),
     map_insert(map_insert(<<>>, ADDR_A, AccountZero), ADDR_B, BlockAccount)}

InitSdb ==
    /\ \E st \in BlockStates : InitBuilderSdb(st)
    /\ calls = <<root_call>>
    /\ memory = <<>>
    /\ step = NoStep
    /\ next_step = NoStep
    /\ err = Pending
    /\ index = 0

SdbSetAccount ==
    \E addr \in SdbAddrs, acc \in {AccountZero, BlockAccount} :
        Apply([DB EXCEPT !.state = set_account(@, addr, acc)],
              "set_account", <<addr, acc>>, <<>>)

\* the getters take &self: the StateDB stays as it is
GetAccount ==
    \E addr \in ReadAddrs :
        Apply(DB, "get_account", <<addr>>, get_account(state, addr))

GetStorage ==
    \E p \in StoragePairs :
        Apply(DB, "get_storage", p, get_storage(DB, p[1], p[2]))

GetCommittedStorage ==
    \E p \in StoragePairs :
        Apply(DB, "get_committed_storage", p, get_committed_storage(DB, p[1], p[2]))

GetBalance ==
    \E addr \in SdbAddrs :
        Apply(DB, "get_balance", <<addr>>, <<get_balance(state, addr)>>)

GetNonce ==
    \E addr \in SdbAddrs :
        Apply(DB, "get_nonce", <<addr>>, <<get_nonce(state, addr)>>)

\* acc.nonce = 100, through the reference get_account_mut returned
write_nonce(st, addr, nonce) == [st EXCEPT ![addr].nonce = nonce]

\* get_account_mut, and the account left alone or its nonce written through
\* the reference it returns
GetAccountMut ==
    \E addr \in SdbAddrs, written \in BOOLEAN :
        LET r == get_account_mut(state, addr)
        IN  Apply([DB EXCEPT !.state = IF written THEN write_nonce(r[2], addr, 100)
                                        ELSE r[2]],
                  "get_account_mut", <<addr, written>>, <<r[1]>>)

\* get_storage_mut, and a word written through the reference it returns
GetStorageMut ==
    \E p \in {<<ADDR_A, 2>>, <<ADDR_B, 3>>}, v \in {7} :
        LET r == get_storage_mut(state, p[1], p[2])
        IN  Apply([DB EXCEPT !.state = write_storage(r[2], p[1], p[2], v)],
                  "get_storage_mut", <<p[1], p[2], v>>, <<r[1]>>)

SetStorage ==
    \E p \in StoragePairs, v \in Words :
        Apply(set_storage(DB, p[1], p[2], v), "set_storage", <<p[1], p[2], v>>, <<>>)

SetTransientStorage ==
    \E p \in {<<ADDR_A, 2>>, <<ADDR_B, 3>>}, v \in Words :
        Apply(set_transient_storage(DB, p[1], p[2], v),
              "set_transient_storage", <<p[1], p[2], v>>, <<>>)

IncreaseNonce ==
    \E addr \in SdbAddrs :
        Apply(increase_nonce(DB, addr), "increase_nonce", <<addr>>,
              <<get_nonce(state, addr)>>)

SetTouched ==
    \E addr \in SdbAddrs :
        Apply([DB EXCEPT !.touched_account = @ \cup {addr}], "set_touched",
              <<addr>>, <<addr \notin touched_account>>)

AddAccountToAccessList ==
    \E addr \in ReadAddrs :
        Apply([DB EXCEPT !.access_list_account = @ \cup {addr}],
              "add_account_to_access_list", <<addr>>,
              <<addr \notin access_list_account>>)

\* remove_account_from_access_list: the address leaves the list; when it was
\* not there, debug_assert!(exist) panics in a build with debug assertions and
\* is compiled out in a build without them
RemoveAccountFromAccessList ==
    \E addr \in ReadAddrs :
        \/ /\ removal_succeeds(access_list_account, addr)
           /\ Apply([DB EXCEPT !.access_list_account = @ \ {addr}],
                    "remove_account_from_access_list", <<addr>>, <<>>)
        \/ /\ removal_fails(access_list_account, addr)
           /\ AssertionFailure("remove_account_from_access_list", <<addr>>)

AddAccountStorageToAccessList ==
    \E p \in {<<ADDR_A, 2>>, <<ADDR_B, 3>>} :
        Apply([DB EXCEPT !.access_list_account_storage = @ \cup {p}],
              "add_account_storage_to_access_list", p,
              <<p \notin access_list_account_storage>>)

\* remove_account_storage_from_access_list, with the same debug_assert!
RemoveAccountStorageFromAccessList ==
    \E p \in {<<ADDR_A, 2>>, <<ADDR_B, 3>>} :
        \/ /\ removal_succeeds(access_list_account_storage, p)
           /\ Apply([DB EXCEPT !.access_list_account_storage = @ \ {p}],
                    "remove_account_storage_from_access_list", p, <<>>)
        \/ /\ removal_fails(access_list_account_storage, p)
           /\ AssertionFailure("remove_account_storage_from_access_list", p)

DestructAccount ==
    \E addr \in SdbAddrs :
        Apply(destruct_account(DB, addr), "destruct_account", <<addr>>, <<>>)

SetRefund ==
    \E value \in {5} :
        Apply([DB EXCEPT !.refund = value], "set_refund", <<value>>, <<>>)

\* commit_tx; noted with it are the pairs with a pending write and the
\* operation it follows
CommitTx ==
    Apply(commit_tx(DB), "commit_tx", <<DOMAIN dirty_storage, last_op.op>>, <<>>)

ClearTransientStorage ==
    Apply(clear_transient_storage(DB), "clear_transient_storage", <<>>, <<>>)

NextSdb ==
    \/ SdbSetAccount
    \/ GetAccount
    \/ GetStorage
    \/ GetCommittedStorage
    \/ GetBalance
    \/ GetNonce
    \/ GetAccountMut
    \/ GetStorageMut
    \/ SetStorage
    \/ SetTransientStorage
    \/ IncreaseNonce
    \/ SetTouched
    \/ AddAccountToAccessList
    \/ RemoveAccountFromAccessList
    \/ AddAccountStorageToAccessList
    \/ RemoveAccountStorageFromAccessList
    \/ DestructAccount
    \/ SetRefund
    \/ CommitTx
    \/ ClearTransientStorage

SpecSdb == InitSdb /\ [][NextSdb]_vars

(***************************************************************************)
(* Properties of the classification.  They speak about the state after     *)
(* get_step_err has classified a step.                                     *)
(***************************************************************************)
Classified == err # Pending
Cur == current_call(calls)
NoReportedError == step.error = NoError
\* the word on top of the following step's stack is zero (or there is none)
ZeroResult ==
    \/ next_step = NoStep
    \/ Len(next_step.stack) = 0
    \/ next_step.stack[Len(next_step.stack)] = 0
SameDepth == next_step # NoStep /\ next_step.depth = step.depth
OtherDepth == next_step = NoStep \/ next_step.depth # step.depth
CallerBalance == state[Cur.address].balance
DeployedLength == step.stack[Len(step.stack) - 1]
DeployedOffset == step.stack[Len(step.stack)]
FirstByteReserved ==
    /\ DeployedLength > 0
    /\ DeployedOffset < Len(memory)
    /\ memory[DeployedOffset + 1] = 239

\* C1 as stated: every call or creation step without a reported error, with a
\* zero result on the following step and call depth 1025, is classified as
\* the depth-limit error, whatever the value, the balance or the target.
C1_DepthWhateverElse ==
    (/\ Classified
     /\ step.op \in CallOps \cup CreateOps
     /\ NoReportedError
     /\ ZeroResult
     /\ step.depth = 1025)
    => err[1] = "Depth"

\* C1: a call or creation step without a reported error at call depth 1025
\* whose following step is in the same frame with a zero result is classified
\* as the depth-limit error of its kind, whatever the value, the caller's
\* balance or the state of the target address.
C1_DepthLimit ==
    (/\ Classified
     /\ step.op \in CallOps \cup CreateOps
     /\ NoReportedError
     /\ SameDepth
     /\ ZeroResult
     /\ step.depth = 1025)
    => err = <<"Depth", call_kind_of(step.op)>>

C1_Witness ==
    /\ Classified
    /\ step.op = "CALL"
    /\ NoReportedError
    /\ SameDepth
    /\ ZeroResult
    /\ step.depth = 1025
    /\ step_value(step) > CallerBalance
    /\ err = <<"Depth", "Call">>

\* C2 as stated: every call step without a reported error, with a zero
\* result on the following step, depth below 1025 and a value greater than
\* the calling account's balance, is classified as insufficient-balance.
C2_BalanceAnyDepthChange ==
    (/\ Classified
     /\ step.op \in CallOps
     /\ NoReportedError
     /\ ZeroResult
     /\ step.depth < 1025
     /\ step_value(step) > CallerBalance)
    => err[1] = "InsufficientBalance"

\* C2: a call step without a reported error, below depth 1025, whose
\* following step is in the same frame with a zero result and whose value is
\* greater than the balance of the calling account, is classified as
\* insufficient-balance.
C2_InsufficientBalance ==
    (/\ Classified
     /\ step.op \in CallOps
     /\ NoReportedError
     /\ SameDepth
     /\ ZeroResult
     /\ step.depth < 1025
     /\ step_value(step) > CallerBalance)
    => err = <<"InsufficientBalance", "Call">>

C2_Witness ==
    /\ Classified
    /\ step.op = "CALL"
    /\ NoReportedError
    /\ SameDepth
    /\ ZeroResult
    /\ step.depth = 1024
    /\ CallerBalance = 1
    /\ step_value(step) = 2
    /\ err = <<"InsufficientBalance", "Call">>

\* C3 as stated: a RETURN step in a creation frame whose remaining gas is
\* below 200 times the deployed length is classified as code-store-out-of-gas,
\* also when the length exceeds the maximum code size or the first deployed
\* byte is the reserved prefix.
C3_GasCheckedFirst ==
    (/\ Classified
     /\ step.op = "RETURN"
     /\ is_create(Cur)
     /\ NoReportedError
     /\ step.gas < 200 * DeployedLength)
    => err = <<"CodeStoreOutOfGas">>

\* C3: a RETURN step in a creation frame (internal or root) without a
\* reported error, whose remaining gas is below 200 times the deployed
\* length, whose length is at most 0x6000 and whose first deployed byte is
\* not the reserved prefix, is classified as code-store-out-of-gas.
C3_CodeStoreOutOfGas ==
    (/\ Classified
     /\ step.op = "RETURN"
     /\ is_create(Cur)
     /\ NoReportedError
     /\ step.gas < 200 * DeployedLength
     /\ DeployedLength <= 24576
     /\ ~FirstByteReserved)
    => err = <<"CodeStoreOutOfGas">>

C3_Witness ==
    /\ Classified
    /\ step.op = "RETURN"
    /\ Cur = mock_root_create
    /\ NoReportedError
    /\ DeployedLength = 24576
    /\ step.gas = 200
    /\ memory = <<0, 239>>
    /\ DeployedOffset = 0
    /\ ZeroResult
    /\ err = <<"CodeStoreOutOfGas">>

\* C4: a RETURN step in a creation frame (internal or root) without a
\* reported error and with a zero result on the following step, whose
\* deployed length is greater than 0x6000, is classified as
\* max-code-size-exceeded, also when the gas is below 200 times the length.
C4_MaxCodeSizeExceeded ==
    (/\ Classified
     /\ step.op = "RETURN"
     /\ is_create(Cur)
     /\ NoReportedError
     /\ ZeroResult
     /\ DeployedLength > 24576)
    => err = <<"MaxCodeSizeExceeded">>

C4_Witness ==
    /\ Classified
    /\ step.op = "RETURN"
    /\ Cur = mock_internal_create
    /\ NoReportedError
    /\ ZeroResult
    /\ DeployedLength = 24577
    /\ step.gas = 199
    /\ err = <<"MaxCodeSizeExceeded">>

\* C5: a RETURN step in a creation frame with a zero result on the following
\* step, a nonzero deployed length and the byte 0xef at the RETURN offset of
\* the frame's memory is classified as invalid-creation-code whenever the gas
\* is at least 200 times the length and the length is at most 0x6000.
C5_InvalidCreationCode ==
    (/\ Classified
     /\ step.op = "RETURN"
     /\ is_create(Cur)
     /\ NoReportedError
     /\ ZeroResult
     /\ FirstByteReserved
     /\ step.gas >= 200 * DeployedLength
     /\ DeployedLength <= 24576)
    => err = <<"InvalidCreationCode">>

C5_Witness ==
    /\ Classified
    /\ step.op = "RETURN"
    /\ NoReportedError
    /\ Cur = mock_internal_create
    /\ ZeroResult
    /\ memory = <<0, 239>>
    /\ DeployedOffset = 1
    /\ DeployedLength = 24576
    /\ step.gas = 200 * 24576
    /\ err = <<"InvalidCreationCode">>

\* C6: SSTORE, a CALL with a nonzero value, SELFDESTRUCT or a log opcode in a
\* frame whose is_static flag is set, without a reported error and with a zero
\* result on the following step, is classified as write-protection; for the
\* CALL this holds whatever the caller's balance.
C6_WriteProtection ==
    (/\ Classified
     /\ Cur.is_static
     /\ NoReportedError
     /\ ZeroResult
     /\ \/ step.op \in {"SSTORE", "SELFDESTRUCT", "LOG0"}
        \/ step.op = "CALL" /\ step.stack[Len(step.stack) - 2] # 0)
    => err = <<"WriteProtection">>

C6_Witness ==
    /\ Classified
    /\ Cur.is_static
    /\ step.op = "CALL"
    /\ NoReportedError
    /\ step.depth = 2
    /\ step.stack[Len(step.stack) - 2] > CallerBalance
    /\ ZeroResult
    /\ next_step # NoStep
    /\ Len(next_step.stack) = 2
    /\ err = <<"WriteProtection">>

\* C7: a REVERT step without a reported error whose following step is at
\* another depth (or absent) with a zero result is classified as success, in
\* the root frame and in a nested call.
C7_RevertIsSuccess ==
    (/\ Classified
     /\ step.op = "REVERT"
     /\ NoReportedError
     /\ OtherDepth
     /\ ZeroResult)
    => err = <<"None">>

C7_Witness ==
    /\ Classified
    /\ step.op = "REVERT"
    /\ NoReportedError
    /\ Len(calls) = 2
    /\ step.depth = 2
    /\ next_step # NoStep
    /\ next_step.depth = 1
    /\ ZeroResult
    /\ err = <<"None">>

\* C8: a JUMP or JUMPI step without a reported error whose following step is
\* at another depth (or absent) with a zero result is classified as
\* invalid-jump, in the root frame and in a nested static call alike; a JUMP
\* or JUMPI step with a reported error is classified as that error.
C8_InvalidJump ==
    /\ (/\ Classified
        /\ step.op \in JumpOps
        /\ NoReportedError
        /\ OtherDepth
        /\ ZeroResult)
       => err = <<"InvalidJump">>
    /\ (/\ Classified
        /\ step.op \in JumpOps
        /\ ~NoReportedError)
       => /\ err # <<"InvalidJump">>
          /\ err[1] = (IF step.error = "GasUintOverflow" THEN "OutOfGas" ELSE step.error)

C8_Witness ==
    /\ Classified
    /\ step.op = "JUMP"
    /\ NoReportedError
    /\ step.depth = 1
    /\ next_step = NoStep
    /\ Cur = root_call
    /\ err = <<"InvalidJump">>

\* C9: a RETURNDATACOPY step without a reported error whose following step is
\* at another depth with a zero result is classified as
\* return-data-out-of-bounds.
C9_ReturnDataOutOfBounds ==
    (/\ Classified
     /\ step.op = "RETURNDATACOPY"
     /\ NoReportedError
     /\ OtherDepth
     /\ ZeroResult)
    => err = <<"ReturnDataOutOfBounds">>

C9_Witness ==
    /\ Classified
    /\ step.op = "RETURNDATACOPY"
    /\ NoReportedError
    /\ step.depth = 2
    /\ next_step # NoStep
    /\ next_step.depth = 1
    /\ next_step.stack = <<1, 0>>
    /\ err = <<"ReturnDataOutOfBounds">>

\* C10: a step with a reported raw error is classified by the tag alone,
\* whatever its opcode, the following step and the call stack: stack-overflow,
\* stack-underflow and invalid-opcode map to themselves and gas-uint-overflow
\* maps to out-of-gas with the sub-kind static-memory-expansion.
C10_RawErrorMapping ==
    (Classified /\ ~NoReportedError)
    => /\ step.error = "StackOverflow" => err = <<"StackOverflow">>
       /\ step.error = "StackUnderflow" => err = <<"StackUnderflow">>
       /\ step.error = "InvalidOpcode" => err = <<"InvalidOpcode">>
       /\ step.error = "GasUintOverflow" => err = <<"OutOfGas", "StaticMemoryExpansion">>

C10_Witness ==
    /\ Classified
    /\ step.error = "GasUintOverflow"
    /\ step.op = "CALL"
    /\ Len(calls) = 2
    /\ err = <<"OutOfGas", "StaticMemoryExpansion">>

\* C11 as stated: the first 1024 pushes are not errors and the 1025th push is
\* classified as stack-overflow with a reported limit of 1024.
C11_ReportedLimit1024 ==
    (index > 0)
    => /\ index <= 1024 => (step.error = NoError /\ err = <<"None">>)
       /\ index = 1025 => (err = <<"StackOverflow">> /\ step.limit = 1024)

\* C11: of 1025 consecutive pushes from an empty stack the first 1024 are
\* classified as success and the 1025th as stack-overflow; the error reported
\* on that step has stack length 1024 and limit 1023.
C11_StackOverflow ==
    (index > 0)
    => /\ Len(step.stack) = index - 1
       /\ index <= 1024 => (step.error = NoError /\ err = <<"None">>)
       /\ index = 1025 => /\ err = <<"StackOverflow">>
                          /\ step.error = "StackOverflow"
                          /\ step.stack_len = 1024
                          /\ step.limit = 1023
                          /\ next_step = NoStep

C11_Witness ==
    /\ index = 1025
    /\ Len(step.stack) = 1024
    /\ step.error = "StackOverflow"
    /\ err = <<"StackOverflow">>

\* the address the current CREATE2 step derives
SaltedTarget == create2_address(step, Cur, memory)
\* the address the current CREATE step derives, from the creator and its nonce
PlainTarget == 1000000 + Cur.address * 10 + state[Cur.address].nonce
NotEntered == NoReportedError /\ SameDepth /\ ZeroResult

\* C12 as stated: the second of two salted creations of one creator with the
\* same salt and initialization code, with a zero result on the following
\* step, depth below 1025 and sufficient balance, is classified as the salted
\* address collision.
C12_AnyZeroResult ==
    (/\ Classified
     /\ step.op = "CREATE2"
     /\ NoReportedError
     /\ ZeroResult
     /\ step.depth < 1025
     /\ CallerBalance >= step_value(step)
     /\ \E st \in StepStacks("CREATE2"), m \in Memories :
           /\ nth_last(st, 3) = nth_last(step.stack, 3)
           /\ mem_read(m, nth_last(st, 1), nth_last(st, 2))
                = mem_read(memory, nth_last(step.stack, 1), nth_last(step.stack, 2))
           /\ create2_address([stack |-> st], Cur, m) \in DOMAIN state)
    => err = <<"ContractAddressCollision", "Create2">>

\* C12: a salted creation that was not entered, below depth 1025 and with
\* sufficient balance, is classified as the salted address collision when an
\* earlier salted creation of the same creator with the same salt and the same
\* initialization code has left an account at its address; a creation whose
\* derived address holds no account is never classified as a collision.
C12_SecondCreation ==
    /\ (/\ Classified
        /\ step.op = "CREATE2"
        /\ NotEntered
        /\ step.depth < 1025
        /\ CallerBalance >= step_value(step)
        /\ \E st \in StepStacks("CREATE2"), m \in Memories :
              /\ nth_last(st, 3) = nth_last(step.stack, 3)
              /\ mem_read(m, nth_last(st, 1), nth_last(st, 2))
                   = mem_read(memory, nth_last(step.stack, 1), nth_last(step.stack, 2))
              /\ create2_address([stack |-> st], Cur, m) \in DOMAIN state)
       => err = <<"ContractAddressCollision", "Create2">>
    /\ (/\ Classified
        /\ step.op \in CreateOps
        /\ NoReportedError
        /\ (IF step.op = "CREATE" THEN PlainTarget ELSE SaltedTarget) \notin DOMAIN state)
       => err[1] # "ContractAddressCollision"

C12_Witness ==
    /\ Classified
    /\ step.op = "CREATE2"
    /\ NotEntered
    /\ Cur = mock_internal_create
    /\ memory = <<0, 239>>
    /\ SaltedTarget \in DOMAIN state
    /\ err = <<"ContractAddressCollision", "Create2">>

\* C13 as stated: a CREATE2 step without a reported error, with a zero result
\* on the following step, depth below 1025 and a creator balance of at least
\* the value is classified as ContractAddressCollision(Create2) whenever the
\* state database holds an account at the derived address.
C13_FoundAnyZeroResult ==
    (/\ Classified
     /\ step.op = "CREATE2"
     /\ NoReportedError
     /\ ZeroResult
     /\ step.depth < 1025
     /\ CallerBalance >= step_value(step)
     /\ SaltedTarget \in DOMAIN state)
    => err[1] = "ContractAddressCollision"

\* C13: a CREATE2 step without a reported error, not entered, below depth
\* 1025 and with a creator balance of at least the value, is classified as
\* ContractAddressCollision(Create2) whenever the state database holds an
\* account at the derived address, also when that account is Account::zero().
C13_CollisionWhenFound ==
    (/\ Classified
     /\ step.op = "CREATE2"
     /\ NotEntered
     /\ step.depth < 1025
     /\ CallerBalance >= step_value(step)
     /\ SaltedTarget \in DOMAIN state)
    => err = <<"ContractAddressCollision", "Create2">>

C13_Witness ==
    /\ Classified
    /\ step.op = "CREATE2"
    /\ NotEntered
    /\ step.depth = 2
    /\ SaltedTarget \in DOMAIN state
    /\ state[SaltedTarget] = AccountZero
    /\ CallerBalance = 1
    /\ step_value(step) = 1
    /\ err = <<"ContractAddressCollision", "Create2">>

\* a rule of the classification applies to the step
RuleApplies ==
    \/ ~NoReportedError
    \/ step.op \in CallOps \cup CreateOps /\ SameDepth /\ ZeroResult
    \/ /\ OtherDepth
       /\ ZeroResult
       /\ \/ step.op \in JumpOps \cup {"RETURNDATACOPY"}
          \/ step.op = "RETURN" /\ is_create(Cur)
          \/ Cur.is_static /\ is_state_mutating(step)

\* C14: a step without a reported error that matches no rule of the
\* classification is classified as success; so are a STOP step, inside or
\* outside a creation frame, and a CALL whose following step is the first
\* step of the callee.
C14_Success ==
    /\ (Classified /\ ~RuleApplies) => err = <<"None">>
    /\ (Classified /\ NoReportedError /\ step.op = "STOP") => err = <<"None">>
    /\ (/\ Classified
        /\ NoReportedError
        /\ step.op = "CALL"
        /\ next_step # NoStep
        /\ next_step.depth = step.depth + 1
        /\ next_step.stack = <<>>)
       => err = <<"None">>

C14_Witness ==
    /\ Classified
    /\ NoReportedError
    /\ step.op = "STOP"
    /\ is_create(Cur)
    /\ index = 0
    /\ err = <<"None">>

(***************************************************************************)
(* Properties of the state database.  A step of the builder's StateDB is   *)
(* told by the operation it leaves in last_op.                             *)
(***************************************************************************)
Committed == last_op.op = "commit_tx"
ZeroAccountAt(st, addr) ==
    /\ addr \in DOMAIN st
    /\ st[addr].nonce = 0
    /\ st[addr].balance = 0
    /\ DOMAIN st[addr].storage = {}
    /\ st[addr].code_hash = "EMPTY_CODE_HASH"
    /\ st[addr].keccak_code_hash = "KECCAK_CODE_HASH_EMPTY"
    /\ st[addr].code_size = 0

\* C15: after commit_tx every address destructed before it reads as a zero
\* account (zero nonce and balance, empty storage, empty-code hash, zero code
\* size), and no operation on the builder's StateDB changes the StateDB it was
\* copied from, which still holds the accounts as they were before.
C15_DestructedZeroAfterCommit ==
    [][/\ alt' = alt
       /\ last_op'.op = "commit_tx"
            => \A a \in destructed_account' :
                  /\ ZeroAccountAt(state', a)
                  /\ get_account(state', a)[2].nonce = 0
                  /\ get_account(state', a)[2].storage = <<>>]_vars

C15_Witness ==
    /\ Committed
    /\ ADDR_A \in destructed_account
    /\ ZeroAccountAt(state, ADDR_A)
    /\ ADDR_A \in DOMAIN alt.state
    /\ alt.state[ADDR_A].nonce = 1
    /\ alt.state[ADDR_A].storage[2] = 7
    /\ alt.destructed_account = {}

\* C16: in every reachable state and for every (addr, key), get_storage
\* returns (true, v) when the dirty set holds v, and otherwise what
\* get_committed_storage returns: (true, committed value) when the account's
\* storage has the key, (false, 0) when the account or the key is absent.
C16_GetStorage ==
    \A a \in ReadAddrs, k \in Keys :
        /\ get_storage(DB, a, k) =
              (IF <<a, k>> \in DOMAIN dirty_storage
               THEN <<TRUE, dirty_storage[<<a, k>>]>>
               ELSE get_committed_storage(DB, a, k))
        /\ get_committed_storage(DB, a, k) =
              (IF a \in DOMAIN state /\ k \in DOMAIN state[a].storage
               THEN <<TRUE, state[a].storage[k]>>
               ELSE <<FALSE, 0>>)

C16_Witness ==
    /\ <<ADDR_A, 2>> \in DOMAIN dirty_storage
    /\ dirty_storage[<<ADDR_A, 2>>] = 0
    /\ get_committed_storage(DB, ADDR_A, 2) = <<TRUE, 7>>
    /\ get_storage(DB, ADDR_A, 2) = <<TRUE, 0>>
    /\ get_storage(DB, ADDR_B, 3) = <<FALSE, 0>>

\* C17: set_storage changes only the dirty set: get_committed_storage and
\* get_account return the same before and after it for every address and
\* key, so committed storage stays as of the last commit_tx over any run of
\* set_storage calls.
C17_SetStorageDirtyOnly ==
    [][last_op'.op = "set_storage"
         => /\ state' = state
            /\ \A a \in ReadAddrs :
                  /\ get_account(state', a) = get_account(state, a)
                  /\ \A k \in Keys :
                        get_committed_storage([state |-> state'], a, k)
                          = get_committed_storage([state |-> state], a, k)
            /\ dirty_storage'[<<last_op'.args[1], last_op'.args[2]>>] = last_op'.args[3]
            /\ UNCHANGED <<access_list_account, access_list_account_storage,
                           transient_storage, destructed_account, touched_account,
                           refund>>]_vars

C17_Witness ==
    /\ last_op.op = "set_storage"
    /\ last_op.args = <<ADDR_A, 2, 0>>
    /\ get_committed_storage(DB, ADDR_A, 2) = <<TRUE, 7>>
    /\ dirty_storage[<<ADDR_A, 2>>] = 0

\* C18: commit_tx folds every dirty write into committed storage: for every
\* (addr, key) with addr not destructed, get_committed_storage after the
\* commit equals get_storage before it, get_storage is the same before and
\* after, and the dirty set is empty afterwards.
C18_CommitFoldsDirty ==
    [][last_op'.op = "commit_tx"
         => /\ dirty_storage' = <<>>
            /\ \A a \in ReadAddrs, k \in Keys :
                  a \notin destructed_account
                  => /\ get_committed_storage([state |-> state'], a, k)
                          = get_storage(DB, a, k)
                     /\ get_storage([state |-> state', dirty_storage |-> dirty_storage'], a, k)
                          = get_storage(DB, a, k)]_vars

C18_Witness ==
    /\ Committed
    /\ dirty_storage = <<>>
    /\ ADDR_A \notin destructed_account
    /\ get_committed_storage(DB, ADDR_A, 3) = <<TRUE, 7>>
    /\ get_committed_storage(DB, ADDR_A, 2) = <<TRUE, 0>>

\* C19: after commit_tx, whatever came before, both access lists are empty
\* (no non-precompiled address and no pair is in them), no address is touched
\* and refund() is 0.
C19_CommitResets ==
    Committed
    => /\ \A a \in ReadAddrs :
            /\ ~is_precompiled(a) => ~check_account_in_access_list(DB, a)
            /\ ~is_touched(DB, a)
       /\ \A p \in ReadPairs : ~check_account_storage_in_access_list(DB, p)
       /\ access_list_account = {}
       /\ access_list_account_storage = {}
       /\ touched_account = {}
       /\ refund = 0

C19_Witness ==
    /\ Committed
    /\ ops = 3
    /\ refund = 0
    /\ access_list_account = {}
    /\ touched_account = {}
    /\ check_account_in_access_list(DB, 1)
    /\ ~check_account_in_access_list(DB, ADDR_B)

\* C20 as stated: after commit_tx, get_transient_storage returns (false, 0)
\* for every (addr, key).
C20_CommitClearsTransient ==
    Committed
    => \A p \in ReadPairs : get_transient_storage(DB, p[1], p[2]) = <<FALSE, 0>>

\* C20: commit_tx leaves the transient storage as it is; it is
\* clear_transient_storage that empties it, after which get_transient_storage
\* returns (false, 0) for every (addr, key).
C20_TransientClearedByClear ==
    [][/\ last_op'.op = "commit_tx" => transient_storage' = transient_storage
       /\ last_op'.op = "clear_transient_storage"
            => \A p \in ReadPairs :
                  get_transient_storage([transient_storage |-> transient_storage'],
                                        p[1], p[2]) = <<FALSE, 0>>]_vars

C20_Witness ==
    /\ Committed
    /\ get_transient_storage(DB, ADDR_A, 2) = <<TRUE, 7>>

\* an operation that gives an account a nonce, a balance or storage
GivesContents ==
    {"set_account", "increase_nonce", "get_account_mut", "get_storage_mut"}

\* C21: the destructed-account set is transaction-scoped: commit_tx leaves
\* it empty, and an account that an operation of a later transaction (the
\* first after a commit_tx) gives contents keeps them at that transaction's
\* commit_tx.
C21_DestructedSetReset ==
    [][/\ last_op'.op = "commit_tx" => destructed_account' = {}
       /\ (last_op.op = "commit_tx" /\ last_op'.op \in GivesContents)
            => \A a \in DOMAIN state' : commit_tx(DB').state[a] = state'[a]]_vars

Destructed == last_op.op = "destruct_account"
\* the StateDB as it is after the step
DBNext == DB'
\* the StateDB with another account at addr
WithAccount(addr, acc) == [DB EXCEPT !.state = set_account(@, addr, acc)]

\* C22 as stated: after destruct_account(addr) the state database still
\* holds what restores the pre-destruct account: it tells the pre-destruct
\* account from every other account that might have been at addr.
C22_RestorableFromStateDB ==
    [][last_op'.op = "destruct_account"
         => \A acc \in {AccountZero, BlockAccount} :
               acc # get_account(state, last_op'.args[1])[2]
               => destruct_account(WithAccount(last_op'.args[1], acc),
                                   last_op'.args[1]) # DBNext]_vars

\* C22: destruct_account(addr) puts a zero account at addr at once and adds
\* addr to the destructed set; nothing else changes (pending dirty writes
\* stay), and the state database after it is the same whatever account was
\* at addr before, so it holds no copy to restore the account from.
C22_DestructOverwritesAtOnce ==
    [][last_op'.op = "destruct_account"
         => /\ state' = map_insert(state, last_op'.args[1], AccountZero)
            /\ destructed_account' = destructed_account \cup {last_op'.args[1]}
            /\ UNCHANGED <<access_list_account, access_list_account_storage,
                           dirty_storage, transient_storage, touched_account,
                           refund, alt>>
            /\ \A acc \in {AccountZero, BlockAccount} :
                  [WithAccount(last_op'.args[1], acc)
                     EXCEPT !.state = map_insert(@, last_op'.args[1], AccountZero),
                            !.destructed_account = @ \cup {last_op'.args[1]}]
                    = DBNext]_vars

C22_Witness ==
    /\ Destructed
    /\ last_op.args = <<ADDR_A>>
    /\ ops = 1
    /\ ADDR_A \in DOMAIN alt.state
    /\ alt.state[ADDR_A] = BlockAccount
    /\ state[ADDR_A] = AccountZero
    /\ ADDR_A \in destructed_account

\* C23 as stated: right after destruct_account(addr), get_account(addr) is
\* the zero account and get_storage(addr, key) is the zero word for every
\* key, also for a key written with set_storage earlier in the transaction.
C23_AllReadsZero ==
    Destructed
    => /\ get_account(state, last_op.args[1])[2] = AccountZero
       /\ \A k \in Keys : get_storage(DB, last_op.args[1], k)[2] = 0

\* C23: right after destruct_account(addr), get_account(addr) returns
\* (true, zero account) and get_committed_storage(addr, key) returns
\* (false, 0) for every key; get_storage(addr, key) returns (false, 0) for a
\* key without a pending set_storage write and (true, v) for a key whose
\* pending write is v.
C23_ReadsAfterDestruct ==
    Destructed
    => /\ get_account(state, last_op.args[1]) = <<TRUE, AccountZero>>
       /\ \A k \in Keys :
             /\ get_committed_storage(DB, last_op.args[1], k) = <<FALSE, 0>>
             /\ get_storage(DB, last_op.args[1], k) =
                   (IF <<last_op.args[1], k>> \in DOMAIN dirty_storage
                    THEN <<TRUE, dirty_storage[<<last_op.args[1], k>>]>>
                    ELSE <<FALSE, 0>>)

C23_Witness ==
    /\ Destructed
    /\ last_op.args = <<ADDR_A>>
    /\ ADDR_A \in DOMAIN alt.state
    /\ alt.state[ADDR_A] = BlockAccount
    /\ get_storage(DB, ADDR_A, 2) = <<FALSE, 0>>
    /\ get_storage(DB, ADDR_A, 3) = <<TRUE, 7>>

\* the getters that take &self
Getters ==
    {"get_account", "get_storage", "get_committed_storage", "get_balance", "get_nonce"}

\* C24: get_account on an address absent from the accounts returns
\* (false, zero account); get_account, get_storage, get_committed_storage,
\* get_balance and get_nonce leave every field of the StateDB as it was, so
\* no account is inserted and the address is still absent afterwards.
C24_GettersInsertNothing ==
    [][/\ last_op'.op \in Getters
            => /\ UNCHANGED sdb_vars
               /\ DOMAIN state' = DOMAIN state
       /\ (last_op'.op = "get_account" /\ last_op'.args[1] \notin DOMAIN state)
            => /\ last_op'.ret = <<FALSE, AccountZero>>
               /\ last_op'.args[1] \notin DOMAIN state'
               /\ ~get_account(state', last_op'.args[1])[1]]_vars

C24_Witness ==
    /\ last_op.op = "get_account"
    /\ last_op.args = <<ADDR_B>>
    /\ last_op.ret = <<FALSE, AccountZero>>
    /\ ADDR_B \notin DOMAIN state
    /\ ADDR_A \in DOMAIN state
    /\ ops = 3

\* the account after the reference was used: its nonce written, or untouched
Modified(acc, written) == IF written THEN [acc EXCEPT !.nonce = 100] ELSE acc

\* C25: get_account_mut(addr) on an absent address inserts a zero account
\* and returns found = false, on a present one found = true; a get_account
\* or get_account_mut that follows returns found = true and the account as
\* written through the reference; and no operation removes an account, so
\* found stays true later.
C25_GetAccountMut ==
    [][/\ last_op'.op = "get_account_mut"
            => /\ last_op'.ret = <<last_op'.args[1] \in DOMAIN state>>
               /\ state' = map_insert(state, last_op'.args[1],
                                      Modified(get_account(state, last_op'.args[1])[2],
                                               last_op'.args[2]))
               /\ get_account(state', last_op'.args[1])
                    = <<TRUE, Modified(get_account(state, last_op'.args[1])[2],
                                       last_op'.args[2])>>
               /\ get_account_mut(state', last_op'.args[1]) = <<TRUE, state'>>
       /\ DOMAIN state \subseteq DOMAIN state']_vars

C25_Witness ==
    /\ last_op.op = "get_account_mut"
    /\ last_op.args = <<ADDR_B, FALSE>>
    /\ last_op.ret = <<TRUE>>
    /\ ADDR_B \notin DOMAIN alt.state
    /\ state[ADDR_B] = [AccountZero EXCEPT !.nonce = 100]
    /\ ops = 2

\* the step is the operation op on the address addr
StepOn(op, addr) == last_op'.op = op /\ last_op'.args[1] = addr

\* C26: check_account_in_access_list is true for a precompiled address in
\* every state, whatever was added, removed or committed; for another
\* address it is false at first, becomes true when the address is added and
\* false when it is removed or commit_tx runs, and no other operation
\* changes it.
C26_PrecompiledAlwaysWarm ==
    [][/\ \A a \in ReadAddrs :
             is_precompiled(a)
             => check_account_in_access_list(DB, a) /\ check_account_in_access_list(DBNext, a)
       /\ \A a \in ReadAddrs :
             ~is_precompiled(a)
             => /\ ops = 0 => ~check_account_in_access_list(DB, a)
                /\ check_account_in_access_list(DBNext, a)
                     <=> \/ StepOn("add_account_to_access_list", a)
                         \/ /\ check_account_in_access_list(DB, a)
                            /\ ~StepOn("remove_account_from_access_list", a)
                            /\ last_op'.op # "commit_tx"]_vars

C26_Witness ==
    /\ last_op.op = "remove_account_from_access_list"
    /\ last_op.args = <<1>>
    /\ ~last_op.failed
    /\ ops = 3
    /\ access_list_account = {ADDR_A}
    /\ check_account_in_access_list(DB, 1)
    /\ check_account_in_access_list(DB, ADDR_A)
    /\ ~check_account_in_access_list(DB, ADDR_B)

RemovedAccount == last_op'.op = "remove_account_from_access_list"
RemovedStorage == last_op'.op = "remove_account_storage_from_access_list"
OtherThanAccountList ==
    <<state, access_list_account_storage, dirty_storage, transient_storage,
      destructed_account, touched_account, refund>>
OtherThanStorageList ==
    <<state, access_list_account, dirty_storage, transient_storage,
      destructed_account, touched_account, refund>>

\* C27 as stated: remove_account_from_access_list and
\* remove_account_storage_from_access_list on an entry that is not in the
\* list always end in an assertion failure, never in a silent return.
C27_AbsentAlwaysFails ==
    [][/\ (RemovedAccount /\ last_op'.args[1] \notin access_list_account)
            => last_op'.failed
       /\ (RemovedStorage /\ last_op'.args \notin access_list_account_storage)
            => last_op'.failed]_vars

\* C27: on a present entry both removals return with the entry removed and
\* every other entry and field unchanged; on an absent entry they either
\* fail the assertion (debug assertions compiled in) or return silently
\* (compiled out), and in both cases the StateDB is left as it was.
C27_RemovalAssertsInDebug ==
    [][/\ RemovedAccount
            => /\ last_op'.args[1] \in access_list_account => ~last_op'.failed
               /\ access_list_account' = access_list_account \ {last_op'.args[1]}
               /\ UNCHANGED OtherThanAccountList
       /\ RemovedStorage
            => /\ last_op'.args \in access_list_account_storage => ~last_op'.failed
               /\ access_list_account_storage'
                    = access_list_account_storage \ {last_op'.args}
               /\ UNCHANGED OtherThanStorageList]_vars

C27_Witness ==
    /\ last_op.op = "remove_account_from_access_list"
    /\ last_op.args = <<ADDR_B>>
    /\ ~last_op.failed
    /\ ops = 2
    /\ access_list_account = {ADDR_A}

\* C28: a commit_tx that follows a commit_tx with nothing in between leaves
\* every field of the StateDB (accounts with their committed storage, dirty
\* set, access lists, touched set, refund, and the rest) as the first left
\* it; and from every state two calls in a row give what one call gives.
C28_CommitIdempotent ==
    [][/\ (last_op.op = "commit_tx" /\ last_op'.op = "commit_tx")
            => UNCHANGED sdb_vars
       /\ last_op'.op = "commit_tx" => commit_tx(DBNext) = DBNext]_vars

C28_Witness ==
    /\ Committed
    /\ last_op.args[2] = "commit_tx"
    /\ ops = 3
    /\ ADDR_A \in destructed_account
    /\ ADDR_B \in DOMAIN state
    /\ state[ADDR_B].storage # <<>>
    /\ refund = 0

StorageWritten == last_op'.op = "get_storage_mut"
PendingWrite(addr, key) == <<addr, key>> \in DOMAIN dirty_storage

\* C29 as stated: after v is written through the reference that
\* get_storage_mut(addr, key) returned, get_storage(addr, key) returns
\* (true, v), from any state, a pending set_storage write for (addr, key)
\* included.
C29_ReadsBackAlways ==
    [][StorageWritten
         => get_storage(DBNext, last_op'.args[1], last_op'.args[2])
              = <<TRUE, last_op'.args[3]>>]_vars

\* C29: get_storage_mut(addr, key) returns found = true exactly when the
\* account had the key, and creates the account and the key otherwise; after
\* v is written through the reference, get_committed_storage(addr, key)
\* returns (true, v), and get_storage(addr, key) returns (true, v) when no
\* set_storage write is pending for (addr, key) and the pending value when
\* one is.
C29_ReadsBackUnlessPending ==
    [][StorageWritten
         => /\ last_op'.ret
                 = <<get_committed_storage(DB, last_op'.args[1], last_op'.args[2])[1]>>
            /\ get_committed_storage(DBNext, last_op'.args[1], last_op'.args[2])
                 = <<TRUE, last_op'.args[3]>>
            /\ get_storage(DBNext, last_op'.args[1], last_op'.args[2])
                 = (IF PendingWrite(last_op'.args[1], last_op'.args[2])
                    THEN <<TRUE, dirty_storage[<<last_op'.args[1], last_op'.args[2]>>]>>
                    ELSE <<TRUE, last_op'.args[3]>>)
            /\ dirty_storage' = dirty_storage]_vars

C29_Witness ==
    /\ last_op.op = "get_storage_mut"
    /\ last_op.args = <<ADDR_A, 2, 7>>
    /\ last_op.ret = <<FALSE>>
    /\ PendingWrite(ADDR_A, 2)
    /\ get_storage(DB, ADDR_A, 2) = <<TRUE, 0>>
    /\ get_committed_storage(DB, ADDR_A, 2) = <<TRUE, 7>>

\* C30: commit_tx leaves nothing of the pending writes to a destructed
\* account: for every address in the destructed-account set and every key,
\* with or without a pending set_storage write and whichever of set_storage
\* and destruct_account came first, get_storage and get_committed_storage
\* return (false, 0) after the commit and get_account returns the zero
\* account.
C30_DirtyOfDestructedDropped ==
    [][last_op'.op = "commit_tx"
         => \A a \in destructed_account :
               /\ get_account(state', a) = <<TRUE, AccountZero>>
               /\ \A k \in Keys :
                     /\ get_storage(DBNext, a, k) = <<FALSE, 0>>
                     /\ get_committed_storage(DBNext, a, k) = <<FALSE, 0>>]_vars

C30_Witness ==
    /\ Committed
    /\ ops = 3
    /\ <<ADDR_A, 3>> \in last_op.args[1]
    /\ ADDR_A \in destructed_account
    /\ ADDR_A \in DOMAIN alt.state
    /\ alt.state[ADDR_A] = BlockAccount
    /\ get_storage(DB, ADDR_A, 3) = <<FALSE, 0>>
    /\ get_account(state, ADDR_A) = <<TRUE, AccountZero>>

====
